---- MODULE Spec2Model ----
(***************************************************************************)
(* Model of the hand-rolled migration system of my-api:                    *)
(*   database/migrations/registry.go   Register, All, Get                  *)
(*   database/migrations/0000NN_*.go   the three migrations' Up and Down   *)
(*   database/migrate_simple.go        RunMigrations, RollbackMigration    *)
(*                                                                         *)
(* A version string is a sequence of digit codes ("000002" is              *)
(* <<0,0,0,0,0,2>>, "" is <<>>), so that Go's string comparison and SQL's  *)
(* ORDER BY are computed, not assumed.  The Ledger is the set of primary   *)
(* keys of the rows of the `migrations` table; the description and         *)
(* executed_at columns are never read back by any decision of the code.    *)
(***************************************************************************)
EXTENDS Integers, Sequences, FiniteSets, TLC

\* ------------------------------------------------------------------ bounds
\* Number of migration versions that exist (000001 .. MaxVer, zero padded).
MaxVer == 3

\* Width of the zero-padded decimal strings whose order is compared with the
\* order of the numbers they write.
Width == 2

\* ------------------------------------------------------- version strings
\* every string of Width decimal digits
PaddedDecimals == [1..Width -> 0..9]

\* The "%06d" shape of the version literals: 000001, 000002, 000003, ...
VersionString(i) ==
    <<0, 0, 0, 0, (i \div 10) % 10, i % 10>>

Versions == { VersionString(i) : i \in 1..MaxVer }

\* getLastMigration's result when the table has no row.
NoVersion == <<>>

\* `a < b` read from the last byte to the first
StrLess_FromLastByte(a, b) ==
    IF Len(a) # Len(b) THEN Len(a) < Len(b)
    ELSE \E i \in 1..Len(a) :
            /\ a[i] < b[i]
            /\ \A j \in (i + 1)..Len(a) : a[j] = b[j]

\* Go's `a < b` on strings: bytewise lexicographic, a proper prefix is less.
RECURSIVE StrLess(_, _)
StrLess(a, b) ==
    IF a = <<>> THEN b # <<>>
    ELSE IF b = <<>> THEN FALSE
    ELSE IF a[1] # b[1] THEN a[1] < b[1]
    ELSE StrLess(Tail(a), Tail(b))

\* ------------------------------------------------------------ definitions
\* A Migration value: its struct type decides what Up and Down execute.
MigrationType(v) ==
    IF v = VersionString(1) THEN "CreateUsersTable"
    ELSE IF v = VersionString(2) THEN "AddPasswordToUsers"
    ELSE IF v = VersionString(3) THEN "CreatePostsTable"
    ELSE "Template"

Definition(v) == [version |-> v, type |-> MigrationType(v)]

\* getNextVersion of the `make` command: the fixed value "000002"
getNextVersion == VersionString(2)

\* The Migration that `make` emits: a template migration whose version is
\* getNextVersion, the version AddPasswordToUsers already has.
MadeDefinition == [version |-> getNextVersion, type |-> "Template"]

Definitions == { Definition(v) : v \in Versions } \cup {MadeDefinition}

\* the nil Migration that a failed map lookup yields
NoMigration == [version |-> <<>>, type |-> "nil"]

\* BaseMigration.Version()
Version(m) == m.version

\* ------------------------------------------------------------- registry.go
\* Register that keeps the entry a version already has
RegisterInto_FirstWins(reg, m) ==
    IF Version(m) \in DOMAIN reg
    THEN reg
    ELSE [v \in (DOMAIN reg) \cup {Version(m)} |->
            IF v = Version(m) THEN m ELSE reg[v]]

\* Register: registry[m.Version()] = m  (an existing entry is overwritten)
RegisterInto(reg, m) ==
    [v \in (DOMAIN reg) \cup {Version(m)} |->
        IF v = Version(m) THEN m ELSE reg[v]]

\* Get: m, ok := registry[version]
Get(reg, version) ==
    IF version \in DOMAIN reg
    THEN [m |-> reg[version], ok |-> TRUE]
    ELSE [m |-> NoMigration, ok |-> FALSE]

\* `for _, m := range registry`: a Go map is ranged in an unspecified order,
\* so the slice All() builds before sorting is any ordering of the entries.
MapRangeOrders(reg) ==
    LET n == Cardinality(DOMAIN reg)
        keyOrders == { k \in [1..n -> DOMAIN reg] :
                         \A i, j \in 1..n : i # j => k[i] # k[j] }
    IN  { [i \in 1..n |-> reg[k[i]]] : k \in keyOrders }

\* the less function with the comparison turned round
Less_Descending(a, b) == StrLess(Version(b), Version(a))

\* the less function handed to sort.Slice
\*   migrations[i].Version() < migrations[j].Version()
Less(a, b) == StrLess(Version(a), Version(b))

Swap(s, i, j) ==
    [s EXCEPT ![i] = s[j], ![j] = s[i]]

\* sort.Slice on fewer than 12 elements is an insertion sort; this is its
\* inner loop: for j := i; j > a && less(j, j-1); j-- { swap(j, j-1) }
RECURSIVE SiftLeft(_, _)
SiftLeft(s, j) ==
    IF j > 1 /\ Less(s[j], s[j-1])
    THEN SiftLeft(Swap(s, j, j-1), j-1)
    ELSE s

RECURSIVE InsertionSortFrom(_, _)
InsertionSortFrom(s, i) ==
    IF i > Len(s) THEN s ELSE InsertionSortFrom(SiftLeft(s, i), i + 1)

\* the insertion sort with its outer loop begun one element too far
SortSlice_FromThird(s) == InsertionSortFrom(s, 3)

\* sort.Slice(migrations, less): for i := a + 1; i < b; i++ { ... }
SortSlice(s) == InsertionSortFrom(s, 2)

\* All() without its sort.Slice call: the slice in map range order
All_Unsorted(rangeOrder) == rangeOrder

\* All(): the returned slice, given the order in which the map was ranged
All(rangeOrder) == SortSlice(rangeOrder)

\* ------------------------------------------------------- migrate_simple.go
\* getExecutedMigrations that loses the rows it scanned
getExecutedMigrations_Empty(rows) == {}

\* getExecutedMigrations: SELECT version, description FROM migrations, into a
\* map keyed by version (only its keys are ever looked at)
getExecutedMigrations(rows) == rows

\* getExecutedMigrations when the connection breaks while the loop of lines
\* 162-169 reads the rows: rows.Next() returns false, the loop ends, and
\* rows.Err() is never looked at, so the map holds the rows read up to then
\* (they come ORDER BY version) and the error returned is nil
getExecutedMigrationsCutShort(rows) ==
    { { v \in rows : StrLess(v, cut) } : cut \in rows }

\* getLastMigration with ORDER BY version ASC
getLastMigration_Asc(rows) ==
    IF rows = {} THEN NoVersion
    ELSE CHOOSE v \in rows : \A w \in rows : w = v \/ StrLess(v, w)

\* getLastMigration: SELECT version ... ORDER BY version DESC LIMIT 1,
\* and "" on sql.ErrNoRows (on strings of digits the column's collation
\* orders as the bytes do)
getLastMigration(rows) ==
    IF rows = {} THEN NoVersion
    ELSE CHOOSE v \in rows : \A w \in rows : w = v \/ StrLess(w, v)

\* getDBConnection: sql.Open, or its error; conns counts the open handles
getDBConnection(conns, fail) ==
    IF fail = "connect"
    THEN [err |-> TRUE, conns |-> conns]
    ELSE [err |-> FALSE, conns |-> conns + 1]

\* a command that returns without closing its handle
dbClose_Leak(conns) == conns

\* `defer db.Close()`, run when the command returns
dbClose(conns) == conns - 1

\* createMigrationsTable as DROP TABLE + CREATE TABLE
createMigrationsTable_Recreate(table, rows) ==
    [table |-> TRUE, rows |-> {}]

\* createMigrationsTable: CREATE TABLE IF NOT EXISTS migrations; the rows of
\* an existing table are kept
createMigrationsTable(table, rows) ==
    [table |-> TRUE, rows |-> rows]

\* GetMigrationStatus keyed by the rows read instead of by migrations.All()
StatusMap_ByRows(all, exec) ==
    [v \in exec |-> TRUE]

\* GetMigrationStatus lines 119-122: for every m of migrations.All(),
\* _, status[m.Version()] = executed[m.Version()]
StatusMap(all, exec) ==
    [v \in { Version(all[i]) : i \in DOMAIN all } |-> v \in exec]

\* cmd/migrate/main.go getAllMigrations: the list is written out by hand
getAllMigrations == << [Version |-> VersionString(1)] >>

\* status[m.Version] on a Go map: false for a key the map does not have
StatusLookup(status, version) ==
    IF version \in DOMAIN status THEN status[version] ELSE FALSE

\* cmd/migrate/main.go showStatus: the lines printed, one for every element
\* of getAllMigrations()
showStatus(status) ==
    [i \in DOMAIN getAllMigrations |->
        [version |-> getAllMigrations[i].Version,
         executed |-> StatusLookup(status, getAllMigrations[i].Version)]]

\* A statement sent to the database can fail whatever the data is.
StmtFails(rows) == [err |-> TRUE, rows |-> rows]

\* recordMigration: INSERT INTO migrations; version is the PRIMARY KEY, so the
\* insert of a version that already has a row is always rejected
recordMigration(rows, version) ==
    IF version \in rows
    THEN { StmtFails(rows) }
    ELSE { StmtFails(rows), [err |-> FALSE, rows |-> rows \cup {version}] }

\* removeMigrationRecord whose DELETE matches no row
removeMigrationRecord_NoOp(rows, version) ==
    { StmtFails(rows), [err |-> FALSE, rows |-> rows] }

\* removeMigrationRecord: DELETE FROM migrations WHERE version = ?
removeMigrationRecord(rows, version) ==
    { StmtFails(rows), [err |-> FALSE, rows |-> rows \ {version}] }

\* ------------------------------------------------------- the migrations' DDL
\* Every db.Exec can fail for a reason outside the schema (connection lost,
\* permissions, ...): the outcome [err |-> TRUE] with the schema untouched is
\* always possible.  MySQL DDL is not transactional but each statement here is
\* a single DDL statement, which either takes effect or does not.  dbErr is
\* the text of the error db.Exec returned, err is whether Up or Down returned
\* an error.
ExecFails(s) == [err |-> TRUE, schema |-> s, dbErr |-> "other"]

\* CreateUsersTable.Up: CREATE TABLE IF NOT EXISTS users
CreateUsersTableUp(s) ==
    { ExecFails(s), [err |-> FALSE, schema |-> [s EXCEPT !.users = TRUE], dbErr |-> "none"] }

\* CreateUsersTable.Down: DROP TABLE IF EXISTS users; refused while posts
\* references users through fk_posts_users
CreateUsersTableDown(s) ==
    IF s.posts
    THEN { ExecFails(s) }
    ELSE { ExecFails(s),
           [err |-> FALSE,
            schema |-> [s EXCEPT !.users = FALSE, !.password = FALSE], dbErr |-> "none"] }

\* AddPasswordToUsers.Up: ALTER TABLE users ADD COLUMN password; the
\* "Duplicate column" error is turned into nil, any other error is returned
AddPasswordToUsersUp(s) ==
    IF ~s.users THEN { ExecFails(s) }
    ELSE IF s.password
    THEN { ExecFails(s),
           [err |-> FALSE, schema |-> s, dbErr |-> "Duplicate column"] }
    ELSE { ExecFails(s),
           [err |-> FALSE, schema |-> [s EXCEPT !.password = TRUE],
            dbErr |-> "none"] }

\* AddPasswordToUsers.Down: ALTER TABLE users DROP COLUMN password
AddPasswordToUsersDown(s) ==
    IF s.users /\ s.password
    THEN { ExecFails(s), [err |-> FALSE, schema |-> [s EXCEPT !.password = FALSE], dbErr |-> "none"] }
    ELSE { ExecFails(s) }

\* CreatePostsTable.Up: CREATE TABLE IF NOT EXISTS posts (... FOREIGN KEY
\* (user_id) REFERENCES users(id) ...)
CreatePostsTableUp(s) ==
    IF s.posts THEN { ExecFails(s), [err |-> FALSE, schema |-> s, dbErr |-> "none"] }
    ELSE IF ~s.users THEN { ExecFails(s) }
    ELSE { ExecFails(s), [err |-> FALSE, schema |-> [s EXCEPT !.posts = TRUE], dbErr |-> "none"] }

\* CreatePostsTable.Down: DROP TABLE IF EXISTS posts
CreatePostsTableDown(s) ==
    { ExecFails(s), [err |-> FALSE, schema |-> [s EXCEPT !.posts = FALSE], dbErr |-> "none"] }

\* A migration written from the `make` template: its SQL is the author's, so
\* it succeeds or fails; it builds nothing the three migrations above use.
TemplateUp(s) ==
    { ExecFails(s), [err |-> FALSE, schema |-> s, dbErr |-> "none"] }

TemplateDown(s) ==
    { ExecFails(s), [err |-> FALSE, schema |-> s, dbErr |-> "none"] }

\* m.Up(db): dynamic dispatch on the Migration's type
Up(m, s) ==
    CASE m.type = "CreateUsersTable"   -> CreateUsersTableUp(s)
      [] m.type = "AddPasswordToUsers" -> AddPasswordToUsersUp(s)
      [] m.type = "CreatePostsTable"   -> CreatePostsTableUp(s)
      [] OTHER                         -> TemplateUp(s)

\* m.Down(db)
Down(m, s) ==
    CASE m.type = "CreateUsersTable"   -> CreateUsersTableDown(s)
      [] m.type = "AddPasswordToUsers" -> AddPasswordToUsersDown(s)
      [] m.type = "CreatePostsTable"   -> CreatePostsTableDown(s)
      [] OTHER                         -> TemplateDown(s)

\* ------------------------------------------- the user service's repository
\* Users that can be created (ids 1..MaxUsers, as the auto-increment gives).
MaxUsers == 2

\* ids a request can name: those, and one no user ever gets (the tests' 999)
UserIDs == 1..(MaxUsers + 1)

\* field values of the requests; "" and 0 are the zero values UpdateUser
\* takes as "not provided"
Names == {"A", "B"}

Emails == {"a@example.com", "b@example.com"}

Ages == {20, 25}

\* the error strings of user_service.go and of the repositories
ErrNotFound == "user not found"          \* errors.New("使用者不存在")

ErrEmailUsed == "email already used"     \* errors.New("電子郵件已被使用")

ErrRepository == "repository error"      \* whatever the repository returned

\* the two implementations of repositories.UserRepository: the tests'
\* mockUserRepository and the gorm userRepository
RepoKinds == {"mock", "gorm"}

\* newMockUserRepository / NewUserRepository on an empty users table
newUserRepository(kind) ==
    [kind |-> kind, users |-> <<>>, emailMap |-> <<>>, nextID |-> 1,
     deleted |-> {}]

\* a map without one of its keys
Without(f, k) == [x \in (DOMAIN f) \ {k} |-> f[x]]

\* a map with a key set
With(f, k, v) == [x \in (DOMAIN f) \cup {k} |-> IF x = k THEN v ELSE f[x]]

\* mockUserRepository hands out the *models.User it keeps in its map, so an
\* assignment to a field of what FindByID returned is an assignment to the
\* stored record; the gorm repository scans the row into a fresh struct
HandsOutStored(repo) == repo.kind = "mock"

\* FindByID: the record, or an error
FindByID(repo, id) ==
    IF id \in DOMAIN repo.users
    THEN [ok |-> TRUE, id |-> id]
    ELSE [ok |-> FALSE, id |-> 0]

\* FindByEmail: mock, the lookup in emailMap; gorm, WHERE email = ? on the
\* rows that are not soft-deleted, First taking the lowest id
FindByEmail(repo, email) ==
    IF repo.kind = "mock"
    THEN IF email \in DOMAIN repo.emailMap
         THEN [ok |-> TRUE, id |-> repo.emailMap[email]]
         ELSE [ok |-> FALSE, id |-> 0]
    ELSE LET holders == { i \in DOMAIN repo.users : repo.users[i].email = email }
         IN  IF holders = {} THEN [ok |-> FALSE, id |-> 0]
             ELSE [ok |-> TRUE,
                   id |-> CHOOSE i \in holders : \A j \in holders : i <= j]

\* the unique index on users.email counts soft-deleted rows too
EmailIndexed(repo, email, except) ==
    \/ email \in repo.deleted
    \/ \E i \in (DOMAIN repo.users) \ {except} : repo.users[i].email = email

\* an operation of the gorm repository that the database refuses
RepoFails(repo) == [err |-> TRUE, repo |-> repo]

\* Create: mock, lines 31-37 (never an error); gorm, INSERT, refused on a
\* database error or by the unique index
Create(repo, user) ==
    LET id == repo.nextID
        stored == [repo EXCEPT !.users = With(@, id, user),
                               !.nextID = @ + 1]
    IN  IF repo.kind = "mock"
        THEN { [err |-> FALSE,
                repo |-> [stored EXCEPT !.emailMap = With(@, user.email, id)]] }
        ELSE IF EmailIndexed(repo, user.email, 0)
        THEN { RepoFails(repo) }
        ELSE { RepoFails(repo), [err |-> FALSE, repo |-> stored] }

\* Update: mock, lines 58-69; gorm, Save
Update(repo, id, user) ==
    IF repo.kind = "mock"
    THEN IF id \notin DOMAIN repo.users
         THEN { RepoFails(repo) }
         ELSE LET oldUser == repo.users[id]
                  index == IF oldUser.email # user.email
                           THEN With(Without(repo.emailMap, oldUser.email),
                                     user.email, id)
                           ELSE repo.emailMap
              IN  { [err |-> FALSE,
                     repo |-> [repo EXCEPT !.emailMap = index,
                                           !.users = With(@, id, user)]] }
    ELSE IF EmailIndexed(repo, user.email, id)
    THEN { RepoFails(repo) }
    ELSE { RepoFails(repo),
           [err |-> FALSE, repo |-> [repo EXCEPT !.users = With(@, id, user)]] }

\* Delete that reports success and leaves the record where it is
Delete_KeepsRecord(repo, id) ==
    { [err |-> FALSE, repo |-> repo] }

\* Delete: mock, lines 72-79; gorm, the soft delete (the row stays in the
\* table, and in the unique index, with deleted_at set)
Delete(repo, id) ==
    IF repo.kind = "mock"
    THEN IF id \in DOMAIN repo.users
         THEN { [err |-> FALSE,
                 repo |-> [repo EXCEPT
                             !.emailMap = Without(@, repo.users[id].email),
                             !.users = Without(@, id)]] }
         ELSE { RepoFails(repo) }
    ELSE IF id \in DOMAIN repo.users
    THEN { RepoFails(repo),
           [err |-> FALSE,
            repo |-> [repo EXCEPT !.deleted = @ \cup {repo.users[id].email},
                                  !.users = Without(@, id)]] }
    ELSE { RepoFails(repo), [err |-> FALSE, repo |-> repo] }

\* ------------------------------------------------------------------ state
VARIABLES
    registry,      \* registry map: version -> Migration
    ledgerTable,   \* does the `migrations` table exist
    ledger,        \* versions that have a row in `migrations`
    schema,        \* [users, password, posts]: what the DDL has built
    dbConns,       \* database handles that are open
    pc,            \* position of the running command
    executed,      \* RunMigrations: the snapshot read from the Ledger
    allMigrations, \* RunMigrations: the result of migrations.All()
    idx,           \* RunMigrations: position of the range loop
    hasNew,        \* RunMigrations: hasNew
    lastVersion,   \* RollbackMigration: lastVersion
    applied,       \* history: Up returned nil and no Down returned nil since
    call,          \* history of the current / last command
    sinceOk,       \* history: last command was a successful migrate, nothing since
    rbStart,       \* history: Ledger when the current run of rollbacks began
    rbRemoved,     \* history: versions removed by that run, in order
    regPhase,      \* history: "init", "running" (a command has begun), "late"
    firstReg,      \* history: version -> the first Migration registered under it
    lastReg,       \* history: version -> the last Migration registered under it
    mu,            \* the RWMutex `mu`: [writer, readers]
    wpc,           \* position of each goroutine that calls Register
    wm,            \* the Migration each of them registers
    apc,           \* position of the goroutine that calls All() and ranges the result
    ranged,        \* All(): keys the range over the map has visited
    slice,         \* All(): the local slice `migrations`
    snap,          \* the caller's slice, as returned by All()
    pos,           \* the caller's position in its range over snap
    seen,          \* the elements the caller has read so far
    regSeen,       \* history: values of the Registry while All() was running
    snapRet,       \* history: the slice at the moment All() returned it
    srv,           \* the server process (main.go): position, locals, history
    userRepo,      \* the UserRepository the user service works on
    ucall,         \* history of the last call of the user service
    cmp            \* two version strings, and how All() and getLastMigration order them

dbVars    == <<ledgerTable, ledger, schema>>
localVars == <<executed, allMigrations, idx, hasNew, lastVersion>>
regVars   == <<firstReg, lastReg>>
concVars  == <<mu, wpc, wm, apc, ranged, slice, snap, pos, seen, regSeen, snapRet>>

appVars   == <<srv, userRepo, ucall, cmp>>

vars == <<registry, dbVars, dbConns, pc, localVars, applied, call, sinceOk,
          rbStart, rbRemoved, regPhase, regVars, concVars, appVars>>

EmptyRegistry == [v \in {} |-> Definition(v)]

EmptySchema == [users |-> FALSE, password |-> FALSE, posts |-> FALSE]

\* history of a migrate() / rollback() / migrate() round trip:
\*   1 migrate() began with exactly one pending version   2 it succeeded
\*   3 the rollback() after it began                       4 it succeeded
\*   5 the migrate() after that began                      6 it succeeded
NoTrip ==
    [stage |-> 0, ledger0 |-> {}, registry0 |-> EmptyRegistry,
     version |-> NoVersion]

NoCall ==
    [op |-> "none", result |-> "none", failAt |-> "none", msg |-> "none",
     upLog |-> <<>>, downLog |-> <<>>, ledgerPre |-> {}, registryPre |-> {},
     rerun |-> FALSE, tablePre |-> FALSE, schemaPre |-> EmptySchema,
     status |-> [v \in {} |-> FALSE], trip |-> NoTrip, printed |-> <<>>,
     swallowed |-> {}]

\* Goroutines that call Register concurrently with All()
MaxWriters == 2

Writers == 1..MaxWriters

\* no two version strings have been ordered yet
NoCompare == [a |-> <<>>, b |-> <<>>, all |-> <<>>, last |-> <<>>]

\* main.go before it has begun
ServerOff ==
    [pc |-> "off", executed |-> {}, all |-> <<>>, idx |-> 0, err |-> FALSE,
     warned |-> FALSE, upLog |-> <<>>, recorded |-> {}, overlap |-> FALSE]

\* no UserRepository has been built yet (app.NewApp, or the test's
\* newMockUserRepository, has not run)
NoRepository ==
    [kind |-> "none", users |-> <<>>, emailMap |-> <<>>, nextID |-> 1,
     deleted |-> {}]

NoUserCall ==
    [op |-> "none", id |-> 0, err |-> "none", found |-> <<>>]

Init ==
    /\ registry = EmptyRegistry
    /\ ledgerTable = FALSE
    /\ ledger = {}
    /\ schema = EmptySchema
    /\ dbConns = 0
    /\ pc = "idle"
    /\ executed = {}
    /\ allMigrations = <<>>
    /\ idx = 0
    /\ hasNew = FALSE
    /\ lastVersion = NoVersion
    /\ applied = {}
    /\ call = NoCall
    /\ sinceOk = FALSE
    /\ rbStart = {}
    /\ rbRemoved = <<>>
    /\ regPhase = "init"
    /\ firstReg = EmptyRegistry
    /\ lastReg = EmptyRegistry
    /\ mu = [writer |-> FALSE, readers |-> 0]
    /\ wpc = [w \in Writers |-> "start"]
    /\ wm = [w \in Writers |-> NoMigration]
    /\ apc = "idle"
    /\ ranged = {}
    /\ slice = <<>>
    /\ snap = <<>>
    /\ pos = 0
    /\ seen = <<>>
    /\ regSeen = {}
    /\ snapRet = <<>>
    /\ srv = ServerOff
    /\ userRepo = NoRepository
    /\ ucall = NoUserCall
    /\ cmp = NoCompare

\* ------------------------------------------------------- history helpers
\* an error of the database that the command did not return: where it
\* arose, for which version, and its text
Swallowed(at, version, text) ==
    IF text = "none" THEN {}
    ELSE { [at |-> at, version |-> version, text |-> text] }

TripBegin(t, op, fail) ==
    IF fail # "none" THEN NoTrip
    ELSE IF op = "migrate" /\ t.stage = 4 THEN [t EXCEPT !.stage = 5]
    ELSE IF op = "migrate" /\ Cardinality((DOMAIN registry) \ ledger) = 1
    THEN [stage |-> 1, ledger0 |-> ledger, registry0 |-> registry,
          version |-> CHOOSE v \in (DOMAIN registry) \ ledger : TRUE]
    ELSE IF op = "rollback" /\ t.stage = 2 THEN [t EXCEPT !.stage = 3]
    ELSE NoTrip

TripReturn(t, result) ==
    IF result = "ok" /\ t.stage \in {1, 3, 5}
    THEN [t EXCEPT !.stage = @ + 1]
    ELSE NoTrip

Began(op, fail) ==
    [NoCall EXCEPT !.op = op,
                   !.result = IF fail = "none" THEN "none" ELSE "error",
                   !.failAt = fail,
                   !.ledgerPre = ledger,
                   !.registryPre = DOMAIN registry,
                   !.rerun = (op = "migrate" /\ sinceOk),
                   !.tablePre = ledgerTable,
                   !.schemaPre = schema,
                   !.trip = TripBegin(call.trip, op, fail)]

Returned(c, result, failAt, msg) ==
    [c EXCEPT !.result = result, !.failAt = failAt, !.msg = msg,
              !.trip = TripReturn(c.trip, result)]

ResetLocals ==
    /\ executed' = {}
    /\ allMigrations' = <<>>
    /\ idx' = 0
    /\ hasNew' = FALSE
    /\ lastVersion' = NoVersion

ResetRun ==
    /\ rbStart' = {}
    /\ rbRemoved' = <<>>

\* a command begins: registration is over
CommandBegins ==
    regPhase' = IF regPhase = "init" THEN "running" ELSE regPhase

\* history of a registration: the first and the last Migration of a version
Registered(m) ==
    /\ firstReg' = IF Version(m) \in DOMAIN firstReg
                   THEN firstReg
                   ELSE [v \in (DOMAIN firstReg) \cup {Version(m)} |->
                           IF v = Version(m) THEN m ELSE firstReg[v]]
    /\ lastReg' = [v \in (DOMAIN lastReg) \cup {Version(m)} |->
                     IF v = Version(m) THEN m ELSE lastReg[v]]
    /\ regPhase' = IF regPhase = "init" THEN "init" ELSE "late"

\* ------------------------------------------------------------ Register
\* A migration file's init() registers its Migration; the Registry is built
\* while the process starts, before a command runs.
Register(m) ==
    /\ pc = "idle"
    /\ registry' = RegisterInto(registry, m)
    /\ Registered(m)
    /\ call' = NoCall
    /\ sinceOk' = FALSE
    /\ ResetRun
    /\ UNCHANGED <<dbVars, dbConns, pc, localVars, applied, concVars, appVars>>

\* --------------------------------------------------------- RunMigrations
\* lines 15-34: getDBConnection, createMigrationsTable,
\* getExecutedMigrations, migrations.All(); each of the first three can
\* return an error, which RunMigrations returns at once.
MigrateBegin ==
    /\ pc = "idle"
    /\ \E fail \in {"none", "connect", "create", "read"} :
       \E rangeOrder \in MapRangeOrders(registry) :
          LET conn    == getDBConnection(dbConns, fail)
              created == createMigrationsTable(ledgerTable, ledger)
          IN  /\ call' = Began("migrate", fail)
              /\ ledgerTable' = IF fail \in {"none", "read"}
                                THEN created.table ELSE ledgerTable
              /\ ledger' = IF fail \in {"none", "read"}
                           THEN created.rows ELSE ledger
              /\ IF fail = "none"
                 THEN /\ executed' = getExecutedMigrations(ledger')
                      /\ allMigrations' = All(rangeOrder)
                      /\ idx' = 1
                      /\ hasNew' = FALSE
                      /\ pc' = "m_loop"
                      /\ dbConns' = conn.conns
                      /\ UNCHANGED lastVersion
                 ELSE /\ pc' = "idle"
                      /\ ResetLocals
                      /\ dbConns' = IF conn.err THEN conn.conns
                                    ELSE dbClose(conn.conns)
    /\ sinceOk' = FALSE
    /\ ResetRun
    /\ CommandBegins
    /\ UNCHANGED <<registry, schema, applied, regVars, concVars, appVars>>

\* MigrateSkip that passes over a migration whether or not it is in the snapshot
MigrateSkip_Pending ==
    /\ pc = "m_loop"
    /\ idx <= Len(allMigrations)
    /\ idx' = idx + 1
    /\ UNCHANGED <<registry, dbVars, dbConns, pc, executed, allMigrations,
                   hasNew, lastVersion, applied, call, sinceOk, rbStart,
                   rbRemoved, regPhase, regVars, concVars, appVars>>

\* line 37, `exists` branch: the migration is in the snapshot, next one
MigrateSkip ==
    /\ pc = "m_loop"
    /\ idx <= Len(allMigrations)
    /\ Version(allMigrations[idx]) \in executed
    /\ idx' = idx + 1
    /\ UNCHANGED <<registry, dbVars, dbConns, pc, executed, allMigrations,
                   hasNew, lastVersion, applied, call, sinceOk, rbStart,
                   rbRemoved, regPhase, regVars, concVars, appVars>>

\* MigrateUp with the Ledger insert placed before the check of Up's error
MigrateUp_RecordsFailed ==
    /\ pc = "m_loop"
    /\ idx <= Len(allMigrations)
    /\ Version(allMigrations[idx]) \notin executed
    /\ LET m == allMigrations[idx] IN
       \E out \in Up(m, schema) :
          /\ schema' = out.schema
          /\ IF out.err
             THEN /\ call' = Returned(
                        [call EXCEPT !.upLog = Append(@, [version |-> Version(m), err |-> TRUE])],
                        "error", "up", "none")
                  /\ pc' = "idle"
                  /\ ResetLocals
                  /\ dbConns' = dbClose(dbConns)
                  /\ UNCHANGED applied
                  /\ ledger' = ledger \cup {Version(m)}
             ELSE /\ call' = [call EXCEPT
                                 !.upLog = Append(@, [version |-> Version(m), err |-> FALSE]),
                                 !.swallowed = @ \cup Swallowed("up", Version(m), out.dbErr)]
                  /\ pc' = "m_record"
                  /\ hasNew' = TRUE
                  /\ applied' = applied \cup {Version(m)}
                  /\ UNCHANGED <<executed, allMigrations, idx, lastVersion, dbConns, ledger>>
    /\ UNCHANGED <<registry, ledgerTable, sinceOk, rbStart, rbRemoved,
                   regPhase, regVars, concVars, appVars>>

\* MigrateUp that logs Up's error and goes on with the next migration
MigrateUp_Continues ==
    /\ pc = "m_loop"
    /\ idx <= Len(allMigrations)
    /\ Version(allMigrations[idx]) \notin executed
    /\ LET m == allMigrations[idx] IN
       \E out \in Up(m, schema) :
          /\ schema' = out.schema
          /\ IF out.err
             THEN /\ call' = [call EXCEPT !.upLog = Append(@, [version |-> Version(m), err |-> TRUE])]
                  /\ idx' = idx + 1
                  /\ hasNew' = TRUE
                  /\ UNCHANGED <<pc, executed, allMigrations, lastVersion, applied, dbConns>>
             ELSE /\ call' = [call EXCEPT
                                 !.upLog = Append(@, [version |-> Version(m), err |-> FALSE]),
                                 !.swallowed = @ \cup Swallowed("up", Version(m), out.dbErr)]
                  /\ pc' = "m_record"
                  /\ hasNew' = TRUE
                  /\ applied' = applied \cup {Version(m)}
                  /\ UNCHANGED <<executed, allMigrations, idx, lastVersion, dbConns>>
    /\ UNCHANGED <<registry, ledgerTable, ledger, sinceOk, rbStart, rbRemoved,
                   regPhase, regVars, concVars, appVars>>

\* lines 37-43: the migration is not in the snapshot: hasNew, m.Up(db), and
\* return on its error
MigrateUp ==
    /\ pc = "m_loop"
    /\ idx <= Len(allMigrations)
    /\ Version(allMigrations[idx]) \notin executed
    /\ LET m == allMigrations[idx] IN
       \E out \in Up(m, schema) :
          /\ schema' = out.schema
          /\ IF out.err
             THEN /\ call' = Returned(
                        [call EXCEPT !.upLog = Append(@, [version |-> Version(m), err |-> TRUE])],
                        "error", "up", "none")
                  /\ pc' = "idle"
                  /\ ResetLocals
                  /\ dbConns' = dbClose(dbConns)
                  /\ UNCHANGED applied
             ELSE /\ call' = [call EXCEPT
                                 !.upLog = Append(@, [version |-> Version(m), err |-> FALSE]),
                                 !.swallowed = @ \cup Swallowed("up", Version(m), out.dbErr)]
                  /\ pc' = "m_record"
                  /\ hasNew' = TRUE
                  /\ applied' = applied \cup {Version(m)}
                  /\ UNCHANGED <<executed, allMigrations, idx, lastVersion, dbConns>>
    /\ UNCHANGED <<registry, ledgerTable, ledger, sinceOk, rbStart, rbRemoved,
                   regPhase, regVars, concVars, appVars>>

\* MigrateRecord that drops recordMigration's error
MigrateRecord_IgnoresError ==
    /\ pc = "m_record"
    /\ LET m == allMigrations[idx] IN
       \E out \in recordMigration(ledger, Version(m)) :
          /\ ledger' = out.rows
          /\ IF out.err
             THEN /\ pc' = "m_loop"
                  /\ idx' = idx + 1
                  /\ UNCHANGED <<call, executed, allMigrations, hasNew, lastVersion, dbConns>>
             ELSE /\ pc' = "m_loop"
                  /\ idx' = idx + 1
                  /\ UNCHANGED <<call, executed, allMigrations, hasNew, lastVersion, dbConns>>
    /\ UNCHANGED <<registry, ledgerTable, schema, applied, sinceOk, rbStart,
                   rbRemoved, regPhase, regVars, concVars, appVars>>

\* lines 45-48: recordMigration, and return on its error
MigrateRecord ==
    /\ pc = "m_record"
    /\ LET m == allMigrations[idx] IN
       \E out \in recordMigration(ledger, Version(m)) :
          /\ ledger' = out.rows
          /\ IF out.err
             THEN /\ call' = Returned(call, "error", "record", "none")
                  /\ pc' = "idle"
                  /\ ResetLocals
                  /\ dbConns' = dbClose(dbConns)
             ELSE /\ pc' = "m_loop"
                  /\ idx' = idx + 1
                  /\ UNCHANGED <<call, executed, allMigrations, hasNew, lastVersion, dbConns>>
    /\ UNCHANGED <<registry, ledgerTable, schema, applied, sinceOk, rbStart,
                   rbRemoved, regPhase, regVars, concVars, appVars>>

\* lines 52-58: the loop is over: log "up to date" or "all succeeded", nil
MigrateFinish ==
    /\ pc = "m_loop"
    /\ idx > Len(allMigrations)
    /\ call' = Returned(call, "ok", "none",
                        IF hasNew THEN "all_succeeded" ELSE "up_to_date")
    /\ pc' = "idle"
    /\ ResetLocals
    /\ dbConns' = dbClose(dbConns)
    /\ sinceOk' = TRUE
    /\ UNCHANGED <<registry, dbVars, applied, rbStart, rbRemoved, regPhase,
                   regVars, concVars, appVars>>

\* ----------------------------------------------------- RollbackMigration
\* lines 63-84: getDBConnection, getLastMigration (whose query fails when the
\* `migrations` table does not exist: RollbackMigration never creates it),
\* the empty case, migrations.Get
RollbackBegin ==
    /\ pc = "idle"
    /\ \E fail \in {"none", "connect", "query"} :
          LET conn  == getDBConnection(dbConns, fail)
              failAt == IF fail = "none" /\ ~ledgerTable THEN "no_table" ELSE fail
              last  == getLastMigration(ledger)
              c     == Began("rollback", failAt)
          IN  IF failAt # "none"
              THEN /\ call' = c
                   /\ pc' = "idle"
                   /\ ResetLocals
                   /\ ResetRun
                   /\ dbConns' = IF conn.err THEN conn.conns
                                 ELSE dbClose(conn.conns)
              ELSE IF last = NoVersion
              THEN /\ call' = Returned(c, "ok", "none", "nothing_to_rollback")
                   /\ pc' = "idle"
                   /\ ResetLocals
                   /\ ResetRun
                   /\ dbConns' = dbClose(conn.conns)
              ELSE IF ~Get(registry, last).ok
              THEN /\ call' = Returned(c, "error", "lookup", "none")
                   /\ pc' = "idle"
                   /\ ResetLocals
                   /\ ResetRun
                   /\ dbConns' = dbClose(conn.conns)
              ELSE /\ call' = c
                   /\ pc' = "rb_down"
                   /\ lastVersion' = last
                   /\ rbStart' = IF rbRemoved = <<>> THEN ledger ELSE rbStart
                   /\ dbConns' = conn.conns
                   /\ UNCHANGED <<executed, allMigrations, idx, hasNew, rbRemoved>>
    /\ sinceOk' = FALSE
    /\ CommandBegins
    /\ UNCHANGED <<registry, dbVars, applied, regVars, concVars, appVars>>

\* RollbackDown that deletes the Ledger row before it checks Down's error
RollbackDown_RemovesAnyway ==
    /\ pc = "rb_down"
    /\ LET m == Get(registry, lastVersion).m IN
       \E out \in Down(m, schema) :
          /\ schema' = out.schema
          /\ IF out.err
             THEN /\ call' = Returned(
                        [call EXCEPT !.downLog = Append(@, [version |-> Version(m), err |-> TRUE])],
                        "error", "down", "none")
                  /\ pc' = "idle"
                  /\ ResetLocals
                  /\ ResetRun
                  /\ dbConns' = dbClose(dbConns)
                  /\ ledger' = ledger \ {Version(m)}
                  /\ UNCHANGED applied
             ELSE /\ call' = [call EXCEPT !.downLog = Append(@, [version |-> Version(m), err |-> FALSE])]
                  /\ pc' = "rb_remove"
                  /\ applied' = applied \ {Version(m)}
                  /\ UNCHANGED <<localVars, rbStart, rbRemoved, dbConns, ledger>>
    /\ UNCHANGED <<registry, ledgerTable, sinceOk, regPhase, regVars,
                   concVars, appVars>>

\* lines 88-91: m.Down(db), and return on its error
RollbackDown ==
    /\ pc = "rb_down"
    /\ LET m == Get(registry, lastVersion).m IN
       \E out \in Down(m, schema) :
          /\ schema' = out.schema
          /\ IF out.err
             THEN /\ call' = Returned(
                        [call EXCEPT !.downLog = Append(@, [version |-> Version(m), err |-> TRUE])],
                        "error", "down", "none")
                  /\ pc' = "idle"
                  /\ ResetLocals
                  /\ ResetRun
                  /\ dbConns' = dbClose(dbConns)
                  /\ UNCHANGED applied
             ELSE /\ call' = [call EXCEPT !.downLog = Append(@, [version |-> Version(m), err |-> FALSE])]
                  /\ pc' = "rb_remove"
                  /\ applied' = applied \ {Version(m)}
                  /\ UNCHANGED <<localVars, rbStart, rbRemoved, dbConns>>
    /\ UNCHANGED <<registry, ledgerTable, ledger, sinceOk, regPhase, regVars,
                   concVars, appVars>>

\* lines 93-99: removeMigrationRecord, return on its error, else nil
RollbackRemove ==
    /\ pc = "rb_remove"
    /\ \E out \in removeMigrationRecord(ledger, lastVersion) :
          /\ ledger' = out.rows
          /\ IF out.err
             THEN /\ call' = Returned(call, "error", "remove", "none")
                  /\ ResetRun
             ELSE /\ call' = Returned(call, "ok", "none", "rollback_ok")
                  /\ rbRemoved' = Append(rbRemoved, lastVersion)
                  /\ UNCHANGED rbStart
    /\ pc' = "idle"
    /\ ResetLocals
    /\ dbConns' = dbClose(dbConns)
    /\ UNCHANGED <<registry, ledgerTable, schema, applied, sinceOk, regPhase,
                   regVars, concVars, appVars>>

\* ---------------------------------------------------- GetMigrationStatus
\* lines 103-125: getDBConnection, createMigrationsTable,
\* getExecutedMigrations, then the status map over migrations.All()
\* and, back in the CLI's showStatus, the lines it prints (nothing on an
\* error: log.Fatal)
Status ==
    /\ pc = "idle"
    /\ \E fail \in {"none", "connect", "create", "read"} :
       \E rangeOrder \in MapRangeOrders(registry) :
          LET conn    == getDBConnection(dbConns, fail)
              created == createMigrationsTable(ledgerTable, ledger)
              c       == Began("status", fail)
          IN  /\ ledgerTable' = IF fail \in {"none", "read"}
                                THEN created.table ELSE ledgerTable
              /\ ledger' = IF fail \in {"none", "read"}
                           THEN created.rows ELSE ledger
              /\ call' = IF fail # "none" THEN c
                         ELSE LET status == StatusMap(All(rangeOrder),
                                               getExecutedMigrations(ledger'))
                              IN  [Returned(c, "ok", "none", "none") EXCEPT
                                     !.status = status,
                                     !.printed = showStatus(status)]
              /\ dbConns' = IF conn.err THEN conn.conns ELSE dbClose(conn.conns)
    /\ sinceOk' = FALSE
    /\ ResetRun
    /\ CommandBegins
    /\ UNCHANGED <<registry, schema, pc, localVars, applied, regVars, concVars, appVars>>

\* GetMigrationStatus in which the read of the Ledger is cut short
StatusRowsLost ==
    /\ pc = "idle"
    /\ \E rangeOrder \in MapRangeOrders(registry) :
          LET conn    == getDBConnection(dbConns, "none")
              created == createMigrationsTable(ledgerTable, ledger)
              c       == Began("status", "none")
          IN  /\ ledgerTable' = created.table
              /\ ledger' = created.rows
              /\ \E read \in getExecutedMigrationsCutShort(ledger') :
                    LET status == StatusMap(All(rangeOrder), read)
                    IN  call' = [Returned(c, "ok", "none", "none") EXCEPT
                                   !.status = status,
                                   !.printed = showStatus(status),
                                   !.swallowed = Swallowed("read", NoVersion, "other")]
              /\ dbConns' = dbClose(conn.conns)
    /\ sinceOk' = FALSE
    /\ ResetRun
    /\ CommandBegins
    /\ UNCHANGED <<registry, schema, pc, localVars, applied, regVars, concVars,
                   appVars>>

\* RunMigrations, lines 15-34, in which the read of the Ledger is cut short
MigrateBeginRowsLost ==
    /\ pc = "idle"
    /\ \E rangeOrder \in MapRangeOrders(registry) :
          LET conn    == getDBConnection(dbConns, "none")
              created == createMigrationsTable(ledgerTable, ledger)
          IN  /\ call' = [Began("migrate", "none") EXCEPT
                            !.swallowed = Swallowed("read", NoVersion, "other")]
              /\ ledgerTable' = created.table
              /\ ledger' = created.rows
              /\ executed' \in getExecutedMigrationsCutShort(ledger')
              /\ allMigrations' = All(rangeOrder)
              /\ idx' = 1
              /\ hasNew' = FALSE
              /\ pc' = "m_loop"
              /\ dbConns' = conn.conns
              /\ UNCHANGED lastVersion
    /\ sinceOk' = FALSE
    /\ ResetRun
    /\ CommandBegins
    /\ UNCHANGED <<registry, schema, applied, regVars, concVars, appVars>>

\* ------------------------------------------------------- main.go, main()
\* what a step of the server process leaves alone: the Registry, the locals
\* and the history of the command run by another process, and the rest
ServerLeaves ==
    UNCHANGED <<registry, pc, localVars, call, sinceOk, rbStart, rbRemoved,
                regPhase, regVars, concVars, userRepo, ucall, cmp>>

\* RunMigrations has returned to main
ServerReturned(err) ==
    [srv EXCEPT !.pc = "returned", !.err = err, !.executed = {},
                !.all = <<>>, !.idx = 0]

\* main.go lines 14-24 and RunMigrations lines 15-34: bootstrap.InitDB, which
\* ends the process when it cannot connect (db.go line 40), then the call of
\* database.RunMigrations up to its loop
ServerBegin ==
    /\ srv.pc = "off"
    /\ \E fail \in {"none", "initdb", "connect", "create", "read"} :
       \E rangeOrder \in MapRangeOrders(registry) :
          LET conn    == getDBConnection(dbConns, fail)
              created == createMigrationsTable(ledgerTable, ledger)
              touched == fail \in {"none", "read"}
          IN  /\ ledgerTable' = IF touched THEN created.table ELSE ledgerTable
              /\ ledger' = IF touched THEN created.rows ELSE ledger
              /\ srv' = IF fail = "initdb" THEN [srv EXCEPT !.pc = "exited"]
                        ELSE IF fail # "none" THEN ServerReturned(TRUE)
                        ELSE [srv EXCEPT
                                !.pc = "m_loop",
                                !.executed = getExecutedMigrations(ledger'),
                                !.all = All(rangeOrder),
                                !.idx = 1,
                                !.overlap = (pc # "idle" /\ call.op = "migrate")]
              /\ dbConns' = IF fail = "none" THEN conn.conns ELSE dbConns
    /\ UNCHANGED <<schema, applied>>
    /\ ServerLeaves

\* RunMigrations line 37, `exists` branch
ServerSkip ==
    /\ srv.pc = "m_loop"
    /\ srv.idx <= Len(srv.all)
    /\ Version(srv.all[srv.idx]) \in srv.executed
    /\ srv' = [srv EXCEPT !.idx = @ + 1]
    /\ UNCHANGED <<dbVars, dbConns, applied>>
    /\ ServerLeaves

\* RunMigrations lines 37-43: m.Up(db), and return on its error
ServerUp ==
    /\ srv.pc = "m_loop"
    /\ srv.idx <= Len(srv.all)
    /\ Version(srv.all[srv.idx]) \notin srv.executed
    /\ LET m == srv.all[srv.idx] IN
       \E out \in Up(m, schema) :
          /\ schema' = out.schema
          /\ IF out.err
             THEN /\ srv' = [ServerReturned(TRUE) EXCEPT
                               !.upLog = Append(@, [version |-> Version(m), err |-> TRUE])]
                  /\ dbConns' = dbClose(dbConns)
                  /\ UNCHANGED applied
             ELSE /\ srv' = [srv EXCEPT
                               !.pc = "m_record",
                               !.upLog = Append(@, [version |-> Version(m), err |-> FALSE])]
                  /\ applied' = applied \cup {Version(m)}
                  /\ UNCHANGED dbConns
    /\ UNCHANGED <<ledgerTable, ledger>>
    /\ ServerLeaves

\* RunMigrations lines 45-48: recordMigration, and return on its error
ServerRecord ==
    /\ srv.pc = "m_record"
    /\ LET m == srv.all[srv.idx] IN
       \E out \in recordMigration(ledger, Version(m)) :
          /\ ledger' = out.rows
          /\ IF out.err
             THEN /\ srv' = ServerReturned(TRUE)
                  /\ dbConns' = dbClose(dbConns)
             ELSE /\ srv' = [srv EXCEPT !.pc = "m_loop", !.idx = @ + 1,
                                        !.recorded = @ \cup {Version(m)}]
                  /\ UNCHANGED dbConns
    /\ UNCHANGED <<ledgerTable, schema, applied>>
    /\ ServerLeaves

\* RunMigrations lines 52-58: the loop is over, nil
ServerFinish ==
    /\ srv.pc = "m_loop"
    /\ srv.idx > Len(srv.all)
    /\ srv' = ServerReturned(FALSE)
    /\ dbConns' = dbClose(dbConns)
    /\ UNCHANGED <<dbVars, applied>>
    /\ ServerLeaves

\* main.go lines 24-51, with log.Fatal in place of the warning
ServerStart_Fatal ==
    /\ srv.pc = "returned"
    /\ srv' = [srv EXCEPT !.pc = IF srv.err THEN "exited" ELSE "serving"]
    /\ UNCHANGED <<dbVars, dbConns, applied>>
    /\ ServerLeaves

\* main.go lines 24-51: an error of RunMigrations is logged as a warning
\* ("不中斷程式，繼續啟動"), and with or without it main goes on to r.Run
ServerStart ==
    /\ srv.pc = "returned"
    /\ srv' = [srv EXCEPT !.pc = "serving", !.warned = srv.err]
    /\ UNCHANGED <<dbVars, dbConns, applied>>
    /\ ServerLeaves

\* ------------------------------------------- the operator's manual edits
\* docs/migration.md Q4: INSERT INTO migrations ... to skip a migration
ManualInsert(v) ==
    /\ pc = "idle"
    /\ ledgerTable
    /\ v \notin ledger
    /\ ledger' = ledger \cup {v}
    /\ call' = NoCall
    /\ sinceOk' = FALSE
    /\ ResetRun
    /\ UNCHANGED <<registry, ledgerTable, schema, dbConns, pc, localVars,
                   applied, regPhase, regVars, concVars, appVars>>

\* docs/migration.md Q2: DELETE FROM migrations ... to run a migration again
ManualDelete(v) ==
    /\ pc = "idle"
    /\ v \in ledger
    /\ ledger' = ledger \ {v}
    /\ call' = NoCall
    /\ sinceOk' = FALSE
    /\ ResetRun
    /\ UNCHANGED <<registry, ledgerTable, schema, dbConns, pc, localVars,
                   applied, regPhase, regVars, concVars, appVars>>

\* ------------------------------------------- the Registry under its lock
\* what the goroutines of this part leave alone
runnerVars == <<dbVars, dbConns, pc, localVars, applied, call, sinceOk,
                rbStart, rbRemoved>>

\* no goroutine has started yet
Quiet == apc = "idle" /\ \A w \in Writers : wpc[w] = "start"

\* mu.Lock() that waits for the writer only, not for the readers
Lock_IgnoresReaders(w, m) ==
    /\ wpc[w] = "start"
    /\ ~mu.writer
    /\ mu' = [mu EXCEPT !.writer = TRUE]
    /\ wpc' = [wpc EXCEPT ![w] = "locked"]
    /\ wm' = [wm EXCEPT ![w] = m]
    /\ UNCHANGED <<registry, runnerVars, appVars, regPhase, regVars, apc, ranged,
                   slice, snap, pos, seen, regSeen, snapRet>>

\* Register, line 15: mu.Lock() waits until no reader and no writer holds mu
Lock(w, m) ==
    /\ wpc[w] = "start"
    /\ ~mu.writer
    /\ mu.readers = 0
    /\ mu' = [mu EXCEPT !.writer = TRUE]
    /\ wpc' = [wpc EXCEPT ![w] = "locked"]
    /\ wm' = [wm EXCEPT ![w] = m]
    /\ UNCHANGED <<registry, runnerVars, appVars, regPhase, regVars, apc, ranged,
                   slice, snap, pos, seen, regSeen, snapRet>>

\* Register, line 17: registry[m.Version()] = m
Write(w) ==
    /\ wpc[w] = "locked"
    /\ registry' = RegisterInto(registry, wm[w])
    /\ Registered(wm[w])
    /\ wpc' = [wpc EXCEPT ![w] = "written"]
    /\ regSeen' = IF apc \in {"range", "sort", "sorted"}
                  THEN regSeen \cup {registry'}
                  ELSE regSeen
    /\ UNCHANGED <<runnerVars, appVars, mu, wm, apc, ranged, slice, snap, pos, seen,
                   snapRet>>

\* Register, line 16: the deferred mu.Unlock()
Unlock(w) ==
    /\ wpc[w] = "written"
    /\ mu' = [mu EXCEPT !.writer = FALSE]
    /\ wpc' = [wpc EXCEPT ![w] = "done"]
    /\ wm' = [wm EXCEPT ![w] = NoMigration]
    /\ UNCHANGED <<registry, runnerVars, appVars, regPhase, regVars, apc, ranged,
                   slice, snap, pos, seen, regSeen, snapRet>>

\* All, lines 22-24: mu.RLock() waits until no writer holds mu;
\* var migrations []Migration
RLock ==
    /\ apc = "idle"
    /\ ~mu.writer
    /\ mu' = [mu EXCEPT !.readers = @ + 1]
    /\ apc' = "range"
    /\ ranged' = {}
    /\ slice' = <<>>
    /\ regSeen' = {registry}
    /\ UNCHANGED <<registry, runnerVars, appVars, regPhase, regVars, wpc, wm, snap,
                   pos, seen, snapRet>>

\* All, lines 25-27: one turn of `for _, m := range registry`, on a key the
\* loop has not visited: migrations = append(migrations, m)
RangeAppend ==
    /\ apc = "range"
    /\ \E v \in (DOMAIN registry) \ ranged :
          /\ slice' = Append(slice, registry[v])
          /\ ranged' = ranged \cup {v}
    /\ UNCHANGED <<registry, runnerVars, appVars, regPhase, regVars, mu, wpc, wm, apc,
                   snap, pos, seen, regSeen, snapRet>>

\* All, line 28: the range has visited every key and ends; nothing is
\* unlocked here, the RUnlock of line 23 is deferred to the return
RangeEnd ==
    /\ apc = "range"
    /\ (DOMAIN registry) \ ranged = {}
    /\ apc' = "sort"
    /\ UNCHANGED <<registry, runnerVars, appVars, regPhase, regVars, mu, wpc,
                   wm, ranged, slice, snap, pos, seen, regSeen, snapRet>>

\* All, lines 30-33: sort.Slice, with mu still read-locked
Sort ==
    /\ apc = "sort"
    /\ slice' = SortSlice(slice)
    /\ apc' = "sorted"
    /\ UNCHANGED <<registry, runnerVars, appVars, regPhase, regVars, mu, wpc, wm,
                   ranged, snap, pos, seen, regSeen, snapRet>>

\* All, lines 35 and 23: return migrations, then the deferred mu.RUnlock();
\* the caller starts to range over the slice it received
Return ==
    /\ apc = "sorted"
    /\ snap' = slice
    /\ snapRet' = slice
    /\ mu' = [mu EXCEPT !.readers = @ - 1]
    /\ apc' = "iterate"
    /\ pos' = 0
    /\ seen' = <<>>
    /\ ranged' = {}
    /\ slice' = <<>>
    /\ UNCHANGED <<registry, runnerVars, appVars, regPhase, regVars, wpc, wm, regSeen>>

\* the caller, e.g. migrate_simple.go line 36 or 120: one turn of
\* `for _, m := range migrations.All()`
Iterate ==
    /\ apc = "iterate"
    /\ IF pos < Len(snap)
       THEN /\ seen' = Append(seen, snap[pos + 1])
            /\ pos' = pos + 1
            /\ UNCHANGED apc
       ELSE /\ apc' = "done"
            /\ UNCHANGED <<pos, seen>>
    /\ UNCHANGED <<registry, runnerVars, appVars, regPhase, regVars, mu, wpc, wm,
                   ranged, slice, snap, regSeen, snapRet>>

\* --------------------------------------------------------- specifications
RegisterAny == \E m \in Definitions : Register(m)

ManualInsertAny == \E v \in Versions : ManualInsert(v)

ManualDeleteAny == \E v \in Versions : ManualDelete(v)

\* The commands, run one at a time against one database, by processes whose
\* Registry was built at start-up.
Next ==
    \/ RegisterAny
    \/ MigrateBegin
    \/ MigrateSkip
    \/ MigrateUp
    \/ MigrateRecord
    \/ MigrateFinish
    \/ RollbackBegin
    \/ RollbackDown
    \/ RollbackRemove
    \/ Status

Spec == Init /\ [][Next]_vars

\* The same, with an operator who also edits the `migrations` table by hand
\* between commands.
NextOps ==
    \/ Next
    \/ ManualInsertAny
    \/ ManualDeleteAny

SpecOps == Init /\ [][NextOps]_vars

\* a step of the server process after its first
ServerNext ==
    \/ ServerSkip
    \/ ServerUp
    \/ ServerRecord
    \/ ServerFinish
    \/ ServerStart

\* what happens before the server process begins: the init() functions, and
\* another process that begins a migrate()
BeforeServer ==
    /\ srv.pc = "off"
    /\ (RegisterAny \/ MigrateBegin)

\* A server that starts while a migrate() of another process (the CLI, or a
\* second instance of the server) may be under way on the same database.
NextServer ==
    \/ BeforeServer
    \/ MigrateSkip
    \/ MigrateUp
    \/ MigrateRecord
    \/ MigrateFinish
    \/ ServerBegin
    \/ ServerNext

SpecServer == Init /\ [][NextServer]_vars

\* main() is one goroutine that runs to r.Run: once it has begun, each of its
\* steps is taken
SpecServerFair == SpecServer /\ WF_vars(ServerNext)

\* Two migrations whose versions are zero-padded decimal strings of one
\* width, registered alone and both applied: what All() returns and what
\* getLastMigration returns.
OrderPair(a, b) ==
    /\ cmp = NoCompare
    /\ a # b
    /\ \E rangeOrder \in MapRangeOrders(
              RegisterInto(RegisterInto(EmptyRegistry,
                  [version |-> a, type |-> "Template"]),
                  [version |-> b, type |-> "Template"])) :
          cmp' = [a |-> a, b |-> b, all |-> All(rangeOrder),
                  last |-> getLastMigration({a, b})]
    /\ UNCHANGED <<registry, runnerVars, regPhase, regVars, concVars, srv,
                   userRepo, ucall>>

OrderAnyPair ==
    /\ cmp = NoCompare
    /\ \E a, b \in PaddedDecimals : OrderPair(a, b)

SpecOrder == Init /\ [][OrderAnyPair]_vars

\* The commands, against a database whose connection can break in the middle
\* of a result set.
NextFaults ==
    \/ Next
    \/ StatusRowsLost
    \/ MigrateBeginRowsLost

SpecFaults == Init /\ [][NextFaults]_vars

\* the init() functions, which run one after the other before main
RegisterAtInit == Quiet /\ RegisterAny

LockAny == \E w \in Writers : \E m \in Definitions : Lock(w, m)

WriteAny == \E w \in Writers : Write(w)

UnlockAny == \E w \in Writers : Unlock(w)

\* Goroutines that call Register while another calls All() and ranges over
\* the slice it got.
NextConc ==
    \/ RegisterAtInit
    \/ LockAny
    \/ WriteAny
    \/ UnlockAny
    \/ RLock
    \/ RangeAppend
    \/ RangeEnd
    \/ Sort
    \/ Return
    \/ Iterate

SpecConc == Init /\ [][NextConc]_vars

TypeOK ==
    /\ DOMAIN registry \subseteq Versions
    /\ ledger \subseteq Versions
    /\ pc \in {"idle", "m_loop", "m_record", "rb_down", "rb_remove"}
    /\ ledger # {} => ledgerTable
    /\ dbConns \in {0, 1}

\* ------------------------------------------------- vocabulary of the claims
\* a command has returned
Returns(op) == pc = "idle" /\ call.op = op /\ call.result # "none"

\* the versions that were pending when the command began
PendingPre == call.registryPre \ call.ledgerPre

\* the version whose Up failed, when the command ended on an Up error
FailedVersion == call.upLog[Len(call.upLog)].version

\* the highest version of a non-empty set, by string comparison
Highest(S) == CHOOSE v \in S : \A w \in S : ~StrLess(v, w)

\* the elements of a sequence
Range(q) == { q[i] : i \in DOMAIN q }

C2_AbortNoRollback ==
    \A i \in DOMAIN call.upLog :
        call.upLog[i].err =>
            /\ i = Len(call.upLog)
            /\ Returns("migrate") /\ call.result = "error"
            /\ call.downLog = <<>>
            /\ \A j \in 1..(i - 1) : call.upLog[j].version \in ledger
            /\ call.ledgerPre \subseteq ledger

\* a migrate() whose third Up failed after two migrations were applied
C2_Witness ==
    /\ Len(call.upLog) = 3
    /\ call.upLog[3].err
    /\ Cardinality(ledger) = 2

\* ---------------------------------------------------------------------- C3
\* C3: the Ups of one migrate() call are invoked in strictly ascending
\* version order (whatever the order of registration or of the map's range),
\* one at a time: no Up is invoked before the previous version is recorded.
C3_AscendingOrder ==
    /\ \A i, j \in DOMAIN call.upLog :
          i < j => StrLess(call.upLog[i].version, call.upLog[j].version)
    /\ \A i \in DOMAIN call.upLog :
          (i < Len(call.upLog)) => call.upLog[i].version \in ledger

\* a migrate() that ran three Ups
C3_Witness ==
    /\ call.op = "migrate"
    /\ Len(call.upLog) = 3
    /\ ~call.upLog[3].err

C5_LedgerIffApplied ==
    pc = "idle" => ledger = applied

\* ---------------------------------------------------------------------- C6
\* C6: a successful rollback() of a non-empty Ledger runs Down for, and
\* removes, exactly the highest version of the Ledger; k successful
\* rollback() calls in a row remove the k highest versions in descending
\* order and leave the lowest ones.
C6_RollbackHighest ==
    (Returns("rollback") /\ call.result = "ok" /\ call.ledgerPre # {}) =>
        /\ ledger = call.ledgerPre \ {Highest(call.ledgerPre)}
        /\ call.downLog =
              <<[version |-> Highest(call.ledgerPre), err |-> FALSE]>>
        /\ call.upLog = <<>>
        /\ Len(rbRemoved) >= 1
        /\ ledger = rbStart \ Range(rbRemoved)
        /\ Cardinality(ledger) = Cardinality(rbStart) - Len(rbRemoved)
        /\ \A i, j \in DOMAIN rbRemoved :
              i < j => StrLess(rbRemoved[j], rbRemoved[i])
        /\ \A v \in ledger : \A i \in DOMAIN rbRemoved : StrLess(v, rbRemoved[i])

\* two successful rollback() calls in a row, from three applied versions
C6_Witness ==
    /\ Returns("rollback")
    /\ call.result = "ok"
    /\ Len(rbRemoved) = 2
    /\ Cardinality(rbStart) = 3
    /\ Cardinality(ledger) = 1

\* ---------------------------------------------------------------------- C7
\* C7: when Down returns an error, rollback() returns an error and the Ledger
\* is what it was before the call: the version still has its row.
C7_DownFails ==
    (\E i \in DOMAIN call.downLog : call.downLog[i].err) =>
        /\ Returns("rollback") /\ call.result = "error"
        /\ ledger = call.ledgerPre
        /\ \A i \in DOMAIN call.downLog : call.downLog[i].version \in ledger

\* a rollback() whose Down failed
C7_Witness ==
    /\ Returns("rollback")
    /\ call.failAt = "down"
    /\ Cardinality(ledger) >= 2

\* ---------------------------------------------------------------------- C8
\* C8: when the Ledger holds a version that is not in the Registry,
\* rollback() returns an error, invokes no Down and leaves the Ledger as it
\* was.
C8_ConsistencyCheck ==
    (call.op = "rollback" /\ ~(call.ledgerPre \subseteq call.registryPre)) =>
        /\ call.downLog = <<>>
        /\ ledger = call.ledgerPre
        /\ pc = "idle" => call.result = "error"

\* ---------------------------------------------------------------------- C9
\* C9: when the Ledger holds a version that is not in the Registry, migrate()
\* and rollback() both fail with an error and run no Up and no Down.
C9_MismatchFatal ==
    (call.op \in {"migrate", "rollback"}
        /\ ~(call.ledgerPre \subseteq call.registryPre)) =>
        /\ call.upLog = <<>>
        /\ call.downLog = <<>>
        /\ pc = "idle" => call.result = "error"

\* --------------------------------------------------------------------- C10
\* C10: when migrate() returns success every registered version is in the
\* Ledger, and the Ledger equals the Registry's version set if it was a
\* subset of it before the call.
C10_Convergence ==
    (Returns("migrate") /\ call.result = "ok") =>
        /\ DOMAIN registry \subseteq ledger
        /\ (call.ledgerPre \subseteq call.registryPre) =>
              ledger = DOMAIN registry

\* a successful migrate() that applied two or more versions
C10_Witness ==
    /\ Returns("migrate")
    /\ call.result = "ok"
    /\ Len(call.upLog) >= 2
    /\ ledger = DOMAIN registry

\* --------------------------------------------------------------------- C11
\* the round trip of call.trip: migrate() began with exactly one pending
\* version and succeeded, the rollback() right after it succeeded
RolledBack == call.trip.stage >= 4

\* that pending version was higher than every version in the Ledger
TripOnTop == \A w \in call.trip.ledger0 : StrLess(w, call.trip.version)

\* the Ledger and the Registry are as they were before the migrate(), and the
\* migrate() after the rollback(), when it succeeds, has invoked Up of that
\* version alone and recorded it
TripReversed ==
    /\ RolledBack =>
          /\ call.trip.stage = 4 => ledger = call.trip.ledger0
          /\ registry = call.trip.registry0
    /\ call.trip.stage = 6 =>
          /\ call.upLog = <<[version |-> call.trip.version, err |-> FALSE]>>
          /\ ledger = call.trip.ledger0 \cup {call.trip.version}

\* C11 as stated: starting with exactly one pending migration, a successful
\* migrate() followed by a successful rollback() leaves the Ledger equal to
\* its state before the migrate() and the Registry unchanged, and a further
\* migrate() applies that version again.
C11_Original == TripReversed

\* C11, amended: the same, when the one pending version is higher than every
\* version in the Ledger (rollback() removes the highest row, whichever
\* migrate() inserted last).
C11_Reversible == TripOnTop => TripReversed

C11_Witness ==
    /\ call.trip.stage = 6
    /\ call.trip.ledger0 # {}
    /\ TripOnTop
    /\ call.trip.version \in ledger

\* --------------------------------------------------------------------- C12
\* the Registry is the one the process built before its first command
RegistryFixed == regPhase # "late"

\* S is a prefix of the Registry in version order: no registered version
\* outside S is lower than a version of S
IsRegistryPrefix(S) ==
    /\ S \subseteq DOMAIN registry
    /\ \A v \in S : \A w \in DOMAIN registry : StrLess(w, v) => w \in S

\* C12: from an empty Ledger, after any sequence of migrate() and rollback()
\* calls, whichever Up or Down fails, and at every step inside them, the
\* versions in the Ledger are a prefix of the Registry in version order.
C12_CausalOrder == RegistryFixed => IsRegistryPrefix(ledger)

\* a migrate() that stopped on a failed Up after it applied a version, then a
\* rollback: the Ledger is a proper, non-empty prefix
C12_Witness ==
    /\ RegistryFixed
    /\ Returns("rollback")
    /\ call.result = "ok"
    /\ call.downLog # <<>>
    /\ ledger # {}
    /\ ledger # DOMAIN registry
    /\ Cardinality(DOMAIN registry) = MaxVer

\* --------------------------------------------------------------------- C13
\* C13: when the Ledger holds no applied version and the database answers,
\* rollback() returns success with "nothing to roll back", invokes no Down
\* and leaves the Ledger empty.
C13_EmptyRollbackNoOp ==
    (Returns("rollback") /\ call.ledgerPre = {}
        /\ call.failAt \notin {"connect", "query"}) =>
        /\ call.result = "ok"
        /\ call.msg = "nothing_to_rollback"
        /\ call.downLog = <<>>
        /\ ledger = {}

\* --------------------------------------------------------------------- C14
\* C14: migrate(), rollback() and status() each make sure the `migrations`
\* table exists before they read or write it: once a command is past its
\* connection and the creation of the table, the table exists, also when it
\* did not exist before the command.
C14_EnsuresLedgerTable ==
    (call.op \in {"migrate", "rollback", "status"}
        /\ call.failAt \notin {"connect", "create"}) => ledgerTable

StatusKeepsData ==
    /\ ledger = call.ledgerPre
    /\ schema = call.schemaPre
    /\ DOMAIN registry = call.registryPre
    /\ call.upLog = <<>>
    /\ call.downLog = <<>>

\* C16 as stated: status() changes nothing in the database, neither the rows
\* of the Ledger nor the existence of any table, changes nothing in the
\* Registry and invokes no Up and no Down.
C16_Original ==
    Returns("status") => (StatusKeepsData /\ ledgerTable = call.tablePre)

\* C16, amended: status() changes no row of the Ledger, no table a migration
\* built and nothing in the Registry, and invokes no Up and no Down; the one
\* thing it may change is to create the `migrations` table, empty, when it
\* does not exist.
C16_ReadPath ==
    Returns("status") =>
        /\ StatusKeepsData
        /\ call.tablePre => ledgerTable
        /\ (ledgerTable /\ ~call.tablePre) => ledger = {}

C16_Witness ==
    /\ Returns("status")
    /\ call.result = "ok"
    /\ call.ledgerPre # {}
    /\ schema.users
    /\ \E v \in DOMAIN call.status : ~call.status[v]

\* --------------------------------------------------------------------- C17
\* q holds every entry of the Registry exactly once
HoldsRegistryOnce(q) ==
    /\ Len(q) = Cardinality(DOMAIN registry)
    /\ \A v \in DOMAIN registry : \E i \in DOMAIN q : q[i] = registry[v]

\* q is in ascending order of version string, no version twice
Ascending(q) ==
    \A i, j \in DOMAIN q : i < j => StrLess(Version(q[i]), Version(q[j]))

\* C17: whatever was registered, in whatever order, and in whatever order
\* the map is ranged, the slice All() returned to RunMigrations holds every
\* registered migration exactly once, in ascending order of version string.
C17_AllSorted ==
    pc \in {"m_loop", "m_record"} =>
        (HoldsRegistryOnce(allMigrations) /\ Ascending(allMigrations))

C17_Witness ==
    /\ pc = "m_loop"
    /\ Len(allMigrations) = MaxVer
    /\ HoldsRegistryOnce(allMigrations)
    /\ \E i \in DOMAIN allMigrations : allMigrations[i] = MadeDefinition

\* --------------------------------------------------------------------- C18
\* C18: the Registry has one entry per version, filed under the version of
\* the Migration it holds; Register under a version that has an entry
\* replaces it without an error; Get(v) returns the Migration registered last
\* under v, or not-found when none was.
C18_LastWriterWins ==
    /\ \A v \in DOMAIN registry : Version(registry[v]) = v
    /\ \A v \in Versions :
          Get(registry, v) =
             IF v \in DOMAIN lastReg
             THEN [m |-> lastReg[v], ok |-> TRUE]
             ELSE [m |-> NoMigration, ok |-> FALSE]

\* a version registered twice, with two Migrations, next to one never
\* registered
C18_Witness ==
    /\ \E v \in DOMAIN registry :
          /\ firstReg[v] # lastReg[v]
          /\ Get(registry, v).m = lastReg[v]
    /\ \E v \in Versions : ~Get(registry, v).ok

\* --------------------------------------------------------------------- C20
\* C20: a command that is running holds exactly one open database handle,
\* the one it opened, and no handle is open once it has returned, whichever
\* way it returned.
C20_ConnectionScoped ==
    /\ pc = "idle" => dbConns = 0
    /\ pc # "idle" => dbConns = 1

\* a migrate() that returned early, on the error of an Up, after a rollback
\* and a status had run
C20_Witness ==
    /\ Returns("migrate")
    /\ call.failAt = "up"
    /\ call.ledgerPre # {}
    /\ dbConns = 0

\* --------------------------------------------------------------------- C19
\* q holds every entry of the map r exactly once
HoldsOnce(q, r) ==
    /\ Len(q) = Cardinality(DOMAIN r)
    /\ \A v \in DOMAIN r : \E i \in DOMAIN q : q[i] = r[v]

\* C19: with goroutines that call Register while All() runs and while the
\* caller ranges over the result, the slice All() returned is in ascending
\* order with no version twice, holds exactly the entries the Registry had
\* at one instant of the call, and stays as it was returned: the caller
\* reads the returned elements, whatever is registered afterwards.
C19_FreshSnapshot ==
    apc \in {"iterate", "done"} =>
        /\ Ascending(snapRet)
        /\ \E r \in regSeen : HoldsOnce(snapRet, r)
        /\ snap = snapRet
        /\ seen = SubSeq(snapRet, 1, pos)

\* the caller has ranged over a slice of two or more migrations while a
\* Register replaced a Migration the slice holds
C19_Witness ==
    /\ apc = "done"
    /\ Len(snapRet) >= 2
    /\ seen = snapRet
    /\ \E i \in DOMAIN snapRet :
          /\ Version(snapRet[i]) \in DOMAIN registry
          /\ registry[Version(snapRet[i])] # snapRet[i]

\* --------------------------------------------------------------------- C21
\* C21: the CLI `status` command, when it succeeds, prints exactly one line
\* for every registered version, marked applied exactly when the version is
\* in the Ledger.
C21_StatusLines ==
    (Returns("status") /\ call.result = "ok") =>
        /\ Len(call.printed) = Cardinality(DOMAIN registry)
        /\ { call.printed[i].version : i \in DOMAIN call.printed } = DOMAIN registry
        /\ \A i \in DOMAIN call.printed :
              call.printed[i].executed <=> call.printed[i].version \in ledger

\* --------------------------------------------------------------------- C25
\* the versions whose Up the command has invoked
UpInvoked == { call.upLog[i].version : i \in DOMAIN call.upLog }

C26_SortUnlocked ==
    apc \in {"sort", "sorted"} => mu.readers = 0

\* --------------------------------------------------------------------- C27
\* the one error the allowlist turns into success
DuplicateColumn ==
    [at |-> "up", version |-> VersionString(2), text |-> "Duplicate column"]

\* C27: the only error of the database that a Runner operation does not
\* return is the "Duplicate column" of the Up of 000002, and a migrate() that
\* went past it records 000002; every other error of an Up, a Down, the
\* creation of the Ledger table, a read of the Ledger, an insert into it or a
\* delete from it ends the operation with an error.
C27_OnlyAllowlist ==
    /\ call.swallowed \subseteq {DuplicateColumn}
    /\ (Returns("migrate") /\ call.result = "ok"
           /\ DuplicateColumn \in call.swallowed) => VersionString(2) \in ledger

\* --------------------------------------------------------------------- C30
\* the number a string of decimal digits writes
RECURSIVE NumericValue(_)
NumericValue(s) ==
    IF s = <<>> THEN 0
    ELSE 10 * NumericValue(SubSeq(s, 1, Len(s) - 1)) + s[Len(s)]

\* C30: for two versions that are zero-padded decimal strings of the same
\* width, All() returns them in ascending order of the numbers they write,
\* and the version getLastMigration returns is the one with the higher number.
C30_NumericOrder ==
    cmp.all # <<>> =>
        /\ Len(cmp.a) = Len(cmp.b)
        /\ NumericValue(Version(cmp.all[1])) < NumericValue(Version(cmp.all[2]))
        /\ NumericValue(cmp.last) >= NumericValue(cmp.a)
        /\ NumericValue(cmp.last) >= NumericValue(cmp.b)
        /\ cmp.last \in {cmp.a, cmp.b}

\* two versions of which the lower number has the higher last digit
C30_Witness ==
    /\ cmp.all # <<>>
    /\ NumericValue(cmp.a) < NumericValue(cmp.b)
    /\ cmp.a[Len(cmp.a)] > cmp.b[Len(cmp.b)]
    /\ Version(cmp.all[1]) = cmp.a
    /\ cmp.last = cmp.b

\* --------------------------------------------------------------------- C22
\* C22: main runs the migrations before it starts the HTTP server, and once
\* RunMigrations has been called the server does start, whether it returned
\* an error (logged as a warning) or not, with the Ledger holding the
\* versions that were recorded before the failure.
C22_StartsAnyway ==
    /\ [](srv.pc = "serving" =>
            (srv.recorded \subseteq ledger /\ srv.warned = srv.err))
    /\ [](srv.pc \in {"m_loop", "m_record", "returned"} => <>(srv.pc = "serving"))

\* the server is up after a RunMigrations that applied a version and then
\* failed
C22_Witness ==
    /\ srv.pc = "serving"
    /\ srv.err
    /\ srv.warned
    /\ srv.recorded # {}
    /\ srv.recorded # DOMAIN registry

\* --------------------------------------------------------------------- C28
\* how many times q has an entry of version v
Invocations(q, v) == Cardinality({ i \in DOMAIN q : q[i].version = v })

\* C28: when the server's RunMigrations began while a migrate() of another
\* process was under way, every version has had its Up invoked at most once
\* by the two together.
C28_UpOnceInTotal ==
    srv.overlap =>
        \A v \in Versions :
            Invocations(call.upLog, v) + Invocations(srv.upLog, v) <= 1

\* ------------------------------------------------------- the user service
\* Everything the user service leaves alone.
migrationVars == <<registry, runnerVars, regPhase, regVars, concVars, srv, cmp>>

\* requests.CreateUserRequest
CreateUserRequests == [name : Names, email : Emails, age : Ages]

\* requests.UpdateUserRequest: every field optional
UpdateUserRequests ==
    [name : Names \cup {""}, email : Emails \cup {""}, age : Ages \cup {0}]

\* an assignment to a field of the *models.User that FindByID returned
AssignThrough(repo, id, user) ==
    IF HandsOutStored(repo) THEN [repo EXCEPT !.users[id] = user] ELSE repo

\* the error a service call hands on from its repository
RepositoryResult(o) ==
    [err |-> IF o.err THEN ErrRepository ELSE "none", repo |-> o.repo]

\* NewUserService(repo), over a fresh repository of either kind
NewUserService(kind) ==
    /\ userRepo = NoRepository
    /\ userRepo' = newUserRepository(kind)
    /\ UNCHANGED <<ucall, migrationVars>>

\* CreateUser, lines 33-53
CreateUserOutcomes(repo, req) ==
    IF FindByEmail(repo, req.email).ok
    THEN { [err |-> ErrEmailUsed, repo |-> repo] }
    ELSE { RepositoryResult(o) : o \in Create(repo, req) }

CreateUser(req) ==
    /\ userRepo.kind \in RepoKinds
    /\ userRepo.nextID <= MaxUsers
    /\ \E o \in CreateUserOutcomes(userRepo, req) :
          /\ userRepo' = o.repo
          /\ ucall' = [op |-> "CreateUser", id |-> userRepo.nextID,
                       err |-> o.err, found |-> <<>>]
    /\ UNCHANGED migrationVars

\* GetUserByID, lines 72-79
GetUserByID(id) ==
    /\ userRepo.kind \in RepoKinds
    /\ LET user == FindByID(userRepo, id)
       IN  ucall' = [op |-> "GetUserByID", id |-> id,
                     err |-> IF user.ok THEN "none" ELSE ErrNotFound,
                     found |-> IF user.ok THEN userRepo.users[id] ELSE <<>>]
    /\ UNCHANGED <<userRepo, migrationVars>>

\* UpdateUser, lines 82-109: the fields are assigned to what FindByID
\* returned, one after the other, the email check in between
UpdateUserOutcomes(repo, id, req) ==
    IF ~FindByID(repo, id).ok
    THEN { [err |-> ErrNotFound, repo |-> repo] }
    ELSE
      LET user0 == repo.users[id]
          user1 == IF req.name # "" THEN [user0 EXCEPT !.name = req.name]
                   ELSE user0
          repo1 == AssignThrough(repo, id, user1)
          existingUser == FindByEmail(repo1, req.email)
      IN  IF req.email # "" /\ existingUser.ok /\ existingUser.id # id
          THEN { [err |-> ErrEmailUsed, repo |-> repo1] }
          ELSE
            LET user2 == IF req.email # ""
                         THEN [user1 EXCEPT !.email = req.email] ELSE user1
                user3 == IF req.age > 0 THEN [user2 EXCEPT !.age = req.age]
                         ELSE user2
                repo3 == AssignThrough(repo1, id, user3)
            IN  { RepositoryResult(o) : o \in Update(repo3, id, user3) }

UpdateUser(id, req) ==
    /\ userRepo.kind \in RepoKinds
    /\ \E o \in UpdateUserOutcomes(userRepo, id, req) :
          /\ userRepo' = o.repo
          /\ ucall' = [op |-> "UpdateUser", id |-> id, err |-> o.err,
                       found |-> <<>>]
    /\ UNCHANGED migrationVars

\* DeleteUser, lines 112-120
DeleteUserOutcomes(repo, id) ==
    IF ~FindByID(repo, id).ok
    THEN { [err |-> ErrNotFound, repo |-> repo] }
    ELSE { RepositoryResult(o) : o \in Delete(repo, id) }

DeleteUser(id) ==
    /\ userRepo.kind \in RepoKinds
    /\ \E o \in DeleteUserOutcomes(userRepo, id) :
          /\ userRepo' = o.repo
          /\ ucall' = [op |-> "DeleteUser", id |-> id, err |-> o.err,
                       found |-> <<>>]
    /\ UNCHANGED migrationVars

NewAnyUserService == \E kind \in RepoKinds : NewUserService(kind)

CreateAnyUser == \E req \in CreateUserRequests : CreateUser(req)

GetAnyUser == \E id \in UserIDs : GetUserByID(id)

UpdateAnyUser == \E id \in UserIDs, req \in UpdateUserRequests : UpdateUser(id, req)

DeleteAnyUser == \E id \in UserIDs : DeleteUser(id)

\* The calls of the user handlers, one at a time.
NextUsers ==
    \/ NewAnyUserService
    \/ CreateAnyUser
    \/ GetAnyUser
    \/ UpdateAnyUser
    \/ DeleteAnyUser

SpecUsers == Init /\ [][NextUsers]_vars

\* ------------------------------------------------------------ C23, C24, C29
\* Stored users that hold an email.
Holders(repo, email) ==
    { i \in DOMAIN repo.users : repo.users[i].email = email }

\* C23: an email is never shared: CreateUser and UpdateUser refuse an email
\* that another stored user holds, and so, after any sequence of CreateUser,
\* UpdateUser and DeleteUser, no two stored users have the same email.
C23_EmailUnique ==
    \A email \in Emails : Cardinality(Holders(userRepo, email)) <= 1

C29_FailedUpdateChangesNothing ==
    [][ \A id \in UserIDs, req \in UpdateUserRequests :
          (UpdateUser(id, req) /\ ucall'.err # "none")
              => userRepo'.users = userRepo.users
      ]_vars

====
